---- MODULE Spec2Model ----
(***************************************************************************)
(* EdgePilot: the admission-controlled local scheduler                     *)
(* (edgepilot/scheduler/core.py, policies.py, runner.py).                  *)
(*                                                                         *)
(* State: the durable store (tasks, schedule events, policies), the        *)
(* scheduler's in-memory heap and handle table, the child processes, the   *)
(* loaded configuration and the position of the background tick.  The      *)
(* metrics snapshot and the time of day are read afresh by every call and  *)
(* are inputs of the actions.  Public operations are one step each; a tick *)
(* is a sequence of steps (entry, one step per launch attempt, reap), and  *)
(* other callers' operations may fall between them.  Sizes reported in     *)
(* bytes by the program are carried in KiB (1 MB = 1024 KiB) so that they  *)
(* fit 32-bit integers.                                                    *)
(***************************************************************************)
EXTENDS Integers, Sequences, FiniteSets, Bags, TLC

\* ------------------------------------------------------------------ bounds
\* number of enqueue calls explored
MaxTasks == 2
\* number of enqueue calls explored where only the heap's order is studied
MaxHeapTasks == 3
\* number of deferrals (priority increments) explored
MaxDefer == 1
\* deferrals of one task explored by the aging specification
MaxAging == 5

\* ------------------------------------------------------ program constants
\* SchedulerConfig: the configurations explored (max_parallel defaults to 2,
\* default_policy to "balanced_defaults")
Configs == [max_parallel : {1, 2}, default_policy : {"balanced_defaults"}]
\* psutil.virtual_memory().total of the host, in KiB (8 GiB)
TotalMemKiB == 8388608
\* 1024 * 1024 bytes per MB, in KiB
KiBPerMB == 1024

\* utcnow() as stored in started_at and ended_at: only "set" is kept
utcnow == "now"

\* SQL NULL / Python None for an optional column, and a present value
Null == <<>>
Some(x) == <<x>>

\* ------------------------------------------------------------ policies.py
PRESETS ==
  [ performance |->
      [ battery_min_pct |-> 10, cpu_max_pct |-> 95, mem_reserve_mb |-> 512,
        gpu_max_util_pct |-> 95,
        quiet_hours |-> [start |-> <<0, 0>>, end |-> <<0, 0>>, allow_if_plugged |-> TRUE] ],
    balanced_defaults |->
      [ battery_min_pct |-> 30, cpu_max_pct |-> 85, mem_reserve_mb |-> 2048,
        gpu_max_util_pct |-> 80,
        quiet_hours |-> [start |-> <<22, 0>>, end |-> <<7, 0>>, allow_if_plugged |-> TRUE] ] ]
  @@ ("sip-battery" :>
      [ battery_min_pct |-> 50, cpu_max_pct |-> 70, mem_reserve_mb |-> 4096,
        gpu_max_util_pct |-> 60,
        quiet_hours |-> [start |-> <<21, 0>>, end |-> <<8, 0>>, allow_if_plugged |-> FALSE] ])

\* parse_time("HH:MM"): a time of day, compared as (hour, minute); here the
\* minute of the day
parse_time(s) == s[1] * 60 + s[2]

\* a window test that ignores windows running over midnight
in_quiet_hours_no_wrap(quiet, now) ==
  parse_time(quiet.start) <= now /\ now < parse_time(quiet.end)

\* in_quiet_hours(quiet) read at wall-clock time `now` (minute of the day)
in_quiet_hours(quiet, now) ==
  LET start == parse_time(quiet.start)
      end   == parse_time(quiet.end)
  IN  IF start < end
        THEN start <= now /\ now < end
        ELSE (now >= start) \/ (now < end)

\* a conversion to MB that always yields 0
TruncDiv_zero(a, b) == 0

\* Python int(a / b): truncation towards zero
TruncDiv(a, b) == IF a >= 0 THEN a \div b ELSE -((-a) \div b)

\* a minimum that ignores its second argument
Min2_first(a, b) == a

Min2(a, b) == IF a <= b THEN a ELSE b
Max2(a, b) == IF a >= b THEN a ELSE b

\* power.get("battery_pct") or 0
OrZero(v) == IF v = Null THEN 0 ELSE v[1]

\* evaluate(snapshot, task, rules) at wall-clock time `now`: the reasons list
evaluate_reasons(snapshot, task, rules, now) ==
  LET cpu         == snapshot.cpu_total_pct
      mem_free_mb == TruncDiv(TotalMemKiB - snapshot.mem_used_kib, KiBPerMB)
      gpu         == snapshot.gpu
      power       == snapshot.power
      cpu_max     == Min2(rules.cpu_max_pct, task.max_cpu_pct)
      mem_reserve == Max2(rules.mem_reserve_mb, task.max_mem_mb)
      battery_min == rules.battery_min_pct
      plugged     == power.plugged
      batt_pct    == OrZero(power.battery_pct)
      quiet       == rules.quiet_hours
      gpu_util    == gpu.util_pct
      gpu_limit   == rules.gpu_max_util_pct
      min_vram    == task.min_vram_mb
      total_kib   == gpu.mem_total_kib
      used_kib    == gpu.mem_used_kib
      free_mb     == IF total_kib # 0 THEN TruncDiv(total_kib - used_kib, KiBPerMB) ELSE 0
      r_cpu   == IF cpu > cpu_max THEN <<"CPU">> ELSE <<>>
      r_mem   == IF mem_free_mb < mem_reserve THEN <<"Free memory">> ELSE <<>>
      r_batt  == IF battery_min # 0 /\ ~plugged /\ batt_pct # 0 /\ batt_pct < battery_min
                   THEN <<"Battery">> ELSE <<>>
      r_quiet == IF in_quiet_hours(quiet, now) /\ ~(plugged /\ quiet.allow_if_plugged)
                   THEN <<"Quiet hours">> ELSE <<>>
      r_gpu   == IF task.requires_gpu
                   THEN IF ~gpu.available
                          THEN <<"GPU required">>
                          ELSE (IF gpu_util > gpu_limit THEN <<"GPU util">> ELSE <<>>)
                               \o (IF min_vram # 0 /\ free_mb < min_vram
                                     THEN <<"GPU free VRAM">> ELSE <<>>)
                   ELSE <<>>
  IN  r_cpu \o r_mem \o r_batt \o r_quiet \o r_gpu

\* an evaluate that stops at the first violated check
evaluate_first_only(snapshot, task, rules, now) ==
  LET reasons == evaluate_reasons(snapshot, task, rules, now)
  IN  [can |-> Len(reasons) = 0,
       reasons |-> IF reasons = <<>> THEN <<>> ELSE <<Head(reasons)>>]

\* evaluate: (can_start, reasons)
evaluate(snapshot, task, rules, now) ==
  LET reasons == evaluate_reasons(snapshot, task, rules, now)
  IN  [can |-> Len(reasons) = 0, reasons |-> reasons]

\* _task_as_dict(t)
task_as_dict(t) ==
  [ requires_gpu |-> t.requires_gpu, min_vram_mb |-> t.min_vram_mb,
    max_cpu_pct |-> t.max_cpu_pct, max_mem_mb |-> t.max_mem_mb,
    priority |-> t.priority ]

\* ------------------------------------------------------- core.py: the heap
\* created_at.timestamp(): the stored wall-clock value read in the host's
\* zone, an order-preserving shift by the zone's (fixed) offset
LocalUtcOffset == 60
timestamp(created_at) == created_at + LocalUtcOffset

\* a QueueItem whose fields are declared (ts, priority): time compared first
QueueItemLess_swapped(a, b) ==
  \/ a.ts < b.ts
  \/ a.ts = b.ts /\ a.priority < b.priority

\* QueueItem.__lt__ (dataclass(order=True)): (priority, ts), task_id not compared
QueueItemLess(a, b) ==
  \/ a.priority < b.priority
  \/ a.priority = b.priority /\ a.ts < b.ts

\* heapq._siftdown(heap, startpos, pos) with newitem = heap[pos]; positions 0-based
RECURSIVE siftdown(_, _, _, _)
siftdown(heap, startpos, pos, newitem) ==
  IF pos > startpos
    THEN LET parentpos == (pos - 1) \div 2
             parent    == heap[parentpos + 1]
         IN  IF QueueItemLess(newitem, parent)
               THEN siftdown([heap EXCEPT ![pos + 1] = parent], startpos, parentpos, newitem)
               ELSE [heap EXCEPT ![pos + 1] = newitem]
    ELSE [heap EXCEPT ![pos + 1] = newitem]

\* heapq._siftup(heap, pos): bubble the smaller child up to a leaf, then sift down
RECURSIVE siftup_loop(_, _, _, _)
siftup_loop(heap, startpos, pos, newitem) ==
  LET endpos   == Len(heap)
      leftpos  == 2 * pos + 1
      rightpos == leftpos + 1
  IN  IF leftpos < endpos
        THEN LET childpos ==
                   IF rightpos < endpos
                      /\ ~QueueItemLess(heap[leftpos + 1], heap[rightpos + 1])
                     THEN rightpos ELSE leftpos
             IN  siftup_loop([heap EXCEPT ![pos + 1] = heap[childpos + 1]],
                             startpos, childpos, newitem)
        ELSE siftdown([heap EXCEPT ![pos + 1] = newitem], startpos, pos, newitem)

siftup(heap, pos) == siftup_loop(heap, pos, pos, heap[pos + 1])

\* heapq.heappush(heap, item)
heappush(heap, item) ==
  LET h == Append(heap, item) IN siftdown(h, 0, Len(h) - 1, item)

\* heapq.heappop(heap): <<returned item, remaining heap>>
heappop(heap) ==
  LET lastelt == heap[Len(heap)]
      rest    == SubSeq(heap, 1, Len(heap) - 1)
  IN  IF Len(rest) > 0
        THEN <<rest[1], siftup([rest EXCEPT ![1] = lastelt], 0)>>
        ELSE <<lastelt, rest>>

\* QueueItem(priority=t.priority, ts=t.created_at.timestamp(), task_id=t.id)
QueueItem(t) == [priority |-> t.priority, ts |-> timestamp(t.created_at), task_id |-> t.id]

\* Scheduler._push_queue(t)
push_queue(heap, t) == heappush(heap, QueueItem(t))

\* --------------------------------------------------------- the policy store
\* json.dumps(rules) / json.loads(text): the stored text of a rule mapping
json_dumps(rules) == <<"json", rules>>
json_loads(text) == text[2]

\* the policies with active = true
ActivePolicies(store) == {n \in DOMAIN store : store[n].active}

\* a policy_set that forgets to deactivate the other policies
deactivate_none(store) == store

\* update(Policy).values(active=False)
deactivate_all(store) == [n \in DOMAIN store |-> [store[n] EXCEPT !.active = FALSE]]

\* Scheduler.policy_set(name, rules): the store after the call
policy_set(store, name, rules) ==
  LET old == deactivate_all(store)
      p   == [json_rules |-> json_dumps(rules), active |-> TRUE]
  IN  IF name \in DOMAIN old
        THEN [old EXCEPT ![name] = p]
        ELSE old @@ (name :> p)

\* an _active_rules that seeds the default preset on every call
active_rules_reseed(store, default_policy) ==
  [rules |-> PRESETS[default_policy],
   store |-> [n \in DOMAIN store \cup {default_policy} |->
                [json_rules |-> IF n = default_policy
                                  THEN <<"json", PRESETS[default_policy]>>
                                  ELSE store[n].json_rules,
                 active |-> n = default_policy]]]

\* an _active_rules that falls back to the default preset without storing it
active_rules_unseeded(store, default_policy) ==
  IF ActivePolicies(store) # {}
    THEN [rules |-> json_loads(store[CHOOSE n \in ActivePolicies(store) : TRUE].json_rules),
          store |-> store]
    ELSE [rules |-> PRESETS[default_policy], store |-> store]

\* Scheduler._active_rules(): the rules returned and the store afterwards
active_rules(store, default_policy) ==
  IF ActivePolicies(store) # {}
    THEN [rules |-> json_loads(store[CHOOSE n \in ActivePolicies(store) : TRUE].json_rules),
          store |-> store]
    ELSE [rules |-> PRESETS[default_policy],
          store |-> policy_set(store, default_policy, PRESETS[default_policy])]

\* ------------------------------------------------------------------ inputs
\* value or default: Python's `x or d` on an integer
OrDefault(x, d) == IF x = 0 THEN d ELSE x

\* enqueue payloads explored (EnqueueBody)
Payloads ==
  { [name |-> "task", command |-> "job", priority |-> 1, max_cpu_pct |-> 80],
    [name |-> "task", command |-> "",    priority |-> 0, max_cpu_pct |-> 0] }

\* policy_set arguments explored
PolicyArgs ==
  { <<"balanced_defaults", PRESETS["balanced_defaults"]>>,
    <<"performance", PRESETS["performance"]>> }

\* MetricsService.snapshot(): what a call may report; an idle and a busy
\* machine, on mains power
Snapshot(cpu) ==
  [ cpu_total_pct |-> cpu, mem_used_kib |-> 524288,
    gpu |-> [available |-> FALSE, util_pct |-> 0, mem_total_kib |-> 0, mem_used_kib |-> 0],
    power |-> [plugged |-> TRUE, battery_pct |-> Some(100)] ]
Snapshots == {Snapshot(10), Snapshot(90)}

\* wall-clock times of day at which a call may happen (12:00, 23:30)
NowSet == {720, 1410}

\* exit codes of a child process (success, failure)
ExitCodes == {0, 1}

\* ------------------------------------------------------------------- state
VARIABLES
  tasks,     \* durable Task rows, in creation order; a task's id is its index
  events,    \* durable ScheduleEvent rows (a bag; id and ts columns left out)
  policies,  \* durable Policy rows by name
  queue,     \* Scheduler._queue: the binary heap of QueueItems
  handles,   \* Scheduler._handles: task ids in insertion order
  procs,     \* child process of each task: not started, alive or exited(rc),
             \* and whether it was sent SIGTERM
  cfg,       \* Scheduler.cfg.scheduler: the configuration loaded at start
  clock,     \* utcnow() at the next enqueue
  pc,        \* position of the background tick: idle, launch, reap
  running,   \* _tick's local count of live processes
  last       \* the last operation: [op, arg, ret]

\* no API call returned in the last step
NoCall == [op |-> "none", arg |-> 0, ret |-> 0]

vars == <<tasks, events, policies, queue, handles, procs, cfg, clock, pc, running, last>>

\* task ids a caller may name; an id not created yet is unknown
TaskIds == 1 .. MaxTasks

\* s.get(Task, task_id) finds a row
Known(task_id) == task_id \in 1 .. Len(tasks)

\* handle.popen.poll() is None
Alive(task_id) == task_id \in 1 .. Len(procs) /\ procs[task_id].status = "alive"

\* task_id in self._handles
Tracked(task_id) == \E i \in 1 .. Len(handles) : handles[i] = task_id

ScheduleEvent(kind, task_id, note) == [kind |-> kind, task_id |-> task_id, note |-> note]

\* s.add(ScheduleEvent(...)) for each event of the sequence evs
RECURSIVE record(_, _)
record(bag, evs) ==
  IF evs = <<>> THEN bag
  ELSE record(bag (+) SetToBag({Head(evs)}), Tail(evs))

\* the number of rows of bag whose kind is in kinds and whose task is task_id
CountIn(bag, kinds, task_id) ==
  LET RECURSIVE sum(_)
      sum(S) == IF S = {} THEN 0
                ELSE LET e == CHOOSE x \in S : TRUE IN CopiesIn(e, bag) + sum(S \ {e})
  IN  sum({e \in BagToSet(bag) : e.kind \in kinds /\ e.task_id = task_id})

\* the number of deferred events recorded so far
NDeferred ==
  LET RECURSIVE sum(_)
      sum(n) == IF n = 0 THEN 0 ELSE CountIn(events, {"deferred"}, n) + sum(n - 1)
  IN  sum(Len(tasks))

Init ==
  /\ tasks = <<>>
  /\ events = EmptyBag
  /\ policies = <<>>
  /\ queue = <<>>
  /\ handles = <<>>
  /\ procs = <<>>
  /\ cfg \in Configs
  /\ clock = 1
  /\ pc = "idle"
  /\ running = 0
  /\ last = NoCall

\* Scheduler.enqueue(**payload)
Enqueue(payload) ==
  /\ LET t == [ id |-> Len(tasks) + 1,
                name |-> payload.name,
                command |-> payload.command,
                requires_gpu |-> FALSE,
                min_vram_mb |-> 0,
                max_cpu_pct |-> OrDefault(payload.max_cpu_pct, 100),
                max_mem_mb |-> 0,
                priority |-> OrDefault(payload.priority, 5),
                state |-> "queued",
                created_at |-> clock,
                started_at |-> Null, ended_at |-> Null,
                pid |-> Null, return_code |-> Null, log_path |-> Null ]
     IN  /\ tasks' = Append(tasks, t)
         /\ events' = record(events, <<ScheduleEvent("enqueued", t.id, t.name)>>)
         /\ queue' = push_queue(queue, t)
         /\ last' = [op |-> "enqueue", arg |-> payload.command, ret |-> t.id]
  /\ procs' = Append(procs, [status |-> "none", rc |-> 0, signalled |-> FALSE])
  /\ clock' = clock + 1
  /\ UNCHANGED <<policies, handles, cfg, pc, running>>

\* a cancel of a queued row that forgets the audit event
cancel_queued_unrecorded(t) ==
  [ret |-> TRUE, state |-> "canceled", notes |-> <<>>, signal |-> FALSE]

\* Scheduler.cancel on a row in state queued
cancel_queued(t) ==
  [ret |-> TRUE, state |-> "canceled", notes |-> <<"Canceled while queued">>, signal |-> FALSE]

\* a cancel of a running row that flips the state only when the signal went out
cancel_running_if_signalled(t, live, delivered) ==
  [ret |-> live /\ delivered,
   state |-> IF live /\ delivered THEN "canceled" ELSE t.state,
   notes |-> IF live /\ delivered THEN <<"Terminated">> ELSE <<>>,
   signal |-> live /\ delivered]

\* Scheduler.cancel on a row in state running: `live` is "a handle is tracked
\* and its process has not exited", `delivered` is "terminate() did not raise";
\* `signal` is whether the process was sent SIGTERM
cancel_running(t, live, delivered) ==
  [ret |-> live /\ delivered, state |-> "canceled", notes |-> <<"Terminated">>,
   signal |-> live /\ delivered]

\* a cancel that treats every row that is not queued as running
cancel_other_flips(t) ==
  [ret |-> FALSE, state |-> "canceled", notes |-> <<"Terminated">>, signal |-> FALSE]

\* Scheduler.cancel on any other row: falls through to `return False`
cancel_other(t) == [ret |-> FALSE, state |-> t.state, notes |-> <<>>, signal |-> FALSE]

\* the branch Scheduler.cancel takes for row t
cancel_row(t, live, delivered) ==
  IF t.state = "queued" THEN cancel_queued(t)
  ELSE IF t.state = "running" THEN cancel_running(t, live, delivered)
  ELSE cancel_other(t)

\* Scheduler.cancel(task_id)
Cancel(task_id, delivered) ==
  /\ IF ~Known(task_id)
       THEN /\ last' = [op |-> "cancel", arg |-> task_id, ret |-> FALSE]
            /\ UNCHANGED <<tasks, events, procs>>
       ELSE LET t == tasks[task_id]
                r == cancel_row(t, Tracked(task_id) /\ Alive(task_id), delivered)
            IN  /\ tasks' = [tasks EXCEPT ![task_id].state = r.state]
                /\ events' = record(events, [i \in 1 .. Len(r.notes) |->
                                               ScheduleEvent("canceled", task_id, r.notes[i])])
                /\ procs' = [procs EXCEPT ![task_id].signalled = @ \/ r.signal]
                /\ last' = [op |-> "cancel", arg |-> task_id, ret |-> r.ret]
  /\ UNCHANGED <<policies, queue, handles, cfg, clock, pc, running>>

\* Scheduler.policy_set(name, rules)
PolicySet(name, rules) ==
  /\ policies' = policy_set(policies, name, rules)
  /\ last' = [op |-> "policy_set", arg |-> name, ret |-> name]
  /\ UNCHANGED <<tasks, events, queue, handles, procs, cfg, clock, pc, running>>

\* Scheduler.list(state="queued"): ids of the matching rows, by created_at
list_state(state) == SelectSeq([i \in 1 .. Len(tasks) |-> i], LAMBDA i : tasks[i].state = state)

\* Scheduler.simulate(): one snapshot, the active rules, a plan entry per queued task
Simulate(snap, now) ==
  LET ar     == active_rules(policies, cfg.default_policy)
      queued == list_state("queued")
      plan   == [i \in 1 .. Len(queued) |->
                   [task_id |-> queued[i],
                    can |-> evaluate(snap, task_as_dict(tasks[queued[i]]), ar.rules, now).can]]
  IN  /\ policies' = ar.store
      /\ last' = [op |-> "simulate", arg |-> 0, ret |-> plan]
      /\ UNCHANGED <<tasks, events, queue, handles, procs, cfg, clock, pc, running>>

\* ---------------------------------------------------------------- the tick
\* sum(1 for h in self._handles.values() if h.popen.poll() is None)
live_count == Cardinality({i \in 1 .. Len(handles) : Alive(handles[i])})

\* a capacity test that is off by one
has_capacity_inclusive(n) == n <= cfg.max_parallel

\* the launch loop's capacity test: running < max_parallel
has_capacity(n) == n < cfg.max_parallel

\* _tick entry: count the live processes
TickStart ==
  /\ pc = "idle"
  /\ running' = live_count
  /\ pc' = "launch"
  /\ last' = NoCall
  /\ UNCHANGED <<tasks, events, policies, queue, handles, procs, cfg, clock>>

\* a launch loop that goes on after _maybe_start_next returned None
after_none_continue == "launch"

\* `if not t: break`: where _tick goes when _maybe_start_next returned None
after_none == "reap"

\* a deferral that leaves the priority as it was
deferred_unpenalised(t) == t

\* `t.priority += 1`: the row of a task whose admission was denied
deferred(t) == [t EXCEPT !.priority = @ + 1]

\* the launch loop goes on: running < max_parallel and self._queue
LoopGuard == pc = "launch" /\ has_capacity(running) /\ queue # <<>>

\* _maybe_start_next: the popped entry's row is missing or not queued;
\* returns None, so _tick leaves the launch loop
LaunchStale ==
  /\ LoopGuard
  /\ LET item == heappop(queue)[1]
     IN  /\ ~Known(item.task_id) \/ tasks[item.task_id].state # "queued"
         /\ last' = NoCall
  /\ queue' = heappop(queue)[2]
  /\ pc' = after_none
  /\ UNCHANGED <<tasks, events, policies, handles, procs, cfg, clock, running>>

\* the admission decision of _maybe_start_next for the popped row
Admission(task_id, snap, now) ==
  evaluate(snap, task_as_dict(tasks[task_id]),
           active_rules(policies, cfg.default_policy).rules, now)

\* _maybe_start_next: admission denied; priority + 1, pushed back, deferred
\* event; returns None, so _tick leaves the launch loop
Defer(snap, now) ==
  /\ LoopGuard
  /\ LET item == heappop(queue)[1]
         tid  == item.task_id
     IN  /\ Known(tid) /\ tasks[tid].state = "queued"
         /\ ~Admission(tid, snap, now).can
         /\ LET t == deferred(tasks[tid])
            IN  /\ tasks' = [tasks EXCEPT ![tid] = t]
                /\ queue' = push_queue(heappop(queue)[2], t)
         /\ events' = record(events, <<ScheduleEvent("deferred", tid, Admission(tid, snap, now).reasons)>>)
         /\ last' = NoCall
  /\ policies' = active_rules(policies, cfg.default_policy).store
  /\ pc' = after_none
  /\ UNCHANGED <<handles, procs, cfg, clock, running>>

\* a deferral, while fewer than MaxDefer were recorded
LaunchDeferred(snap, now) == NDeferred < MaxDefer /\ Defer(snap, now)

\* self._handles[t.id] = handle
track(hs, task_id) == IF \E i \in 1 .. Len(hs) : hs[i] = task_id THEN hs ELSE Append(hs, task_id)

\* _maybe_start_next: admitted and start_subprocess returned a handle
LaunchStarted(snap, now) ==
  /\ LoopGuard
  /\ LET item == heappop(queue)[1]
         tid  == item.task_id
     IN  /\ Known(tid) /\ tasks[tid].state = "queued"
         /\ Admission(tid, snap, now).can
         /\ procs' = [procs EXCEPT ![tid] = [status |-> "alive", rc |-> 0, signalled |-> FALSE]]
         /\ handles' = track(handles, tid)
         /\ tasks' = [tasks EXCEPT ![tid] =
                        [@ EXCEPT !.state = "running", !.started_at = Some(utcnow),
                                  !.pid = Some(tid), !.log_path = Some(tid)]]
         /\ events' = record(events, <<ScheduleEvent("started", tid, tasks[tid].command)>>)
         /\ last' = NoCall
  /\ queue' = heappop(queue)[2]
  /\ policies' = active_rules(policies, cfg.default_policy).store
  /\ running' = running + 1
  /\ UNCHANGED <<cfg, clock, pc>>

\* a loop that ends when a tick raises
after_error_stops == "stopped"

\* `except Exception:` in _loop: the tick is abandoned, the loop sleeps and
\* goes on to the next tick
after_error == "idle"

\* _maybe_start_next: admitted but start_subprocess raised (direct exec and
\* the shell fallback both failed): the session rolls back, _tick is
\* abandoned and the loop's handler swallows the error
LaunchStartFails(snap, now) ==
  /\ LoopGuard
  /\ LET item == heappop(queue)[1]
         tid  == item.task_id
     IN  /\ Known(tid) /\ tasks[tid].state = "queued"
         /\ Admission(tid, snap, now).can
         /\ last' = NoCall
  /\ queue' = heappop(queue)[2]
  /\ policies' = active_rules(policies, cfg.default_policy).store
  /\ pc' = after_error
  /\ UNCHANGED <<tasks, events, handles, procs, cfg, clock, running>>

\* the launch loop's condition is false: on to the reap phase
LaunchDone ==
  /\ pc = "launch"
  /\ ~(has_capacity(running) /\ queue # <<>>)
  /\ pc' = "reap"
  /\ last' = NoCall
  /\ UNCHANGED <<tasks, events, policies, queue, handles, procs, cfg, clock, running>>

\* a reap phase that takes every exit for a success
reap_state_requeue(rc) == "queued"

reap_state_done(rc) == "done"

\* the state the reap phase writes for exit code rc
reap_state(rc) == IF rc = 0 THEN "done" ELSE "failed"
\* the event kind the reap phase records for exit code rc
reap_kind(rc) == IF rc = 0 THEN "finished" ELSE "failed"

\* the rows after reaping the handles hs[1..n] in order
RECURSIVE reap_tasks(_, _, _)
reap_tasks(ts, hs, n) ==
  IF n = 0 THEN ts
  ELSE LET prev == reap_tasks(ts, hs, n - 1)
           tid  == hs[n]
       IN  IF procs[tid].status = "exited" /\ tid \in 1 .. Len(prev)
             THEN [prev EXCEPT ![tid] =
                     [@ EXCEPT !.state = reap_state(procs[tid].rc),
                               !.return_code = Some(procs[tid].rc),
                               !.ended_at = Some(utcnow)]]
             ELSE prev

\* the events recorded while reaping the handles hs[1..n] in order
RECURSIVE reap_events(_, _)
reap_events(hs, n) ==
  IF n = 0 THEN <<>>
  ELSE LET tid == hs[n]
       IN  reap_events(hs, n - 1) \o
             (IF procs[tid].status = "exited" /\ Known(tid)
                THEN <<ScheduleEvent(reap_kind(procs[tid].rc), tid, procs[tid].rc)>>
                ELSE <<>>)

\* the reap phase of _tick: every tracked handle whose process has exited
Reap ==
  /\ pc = "reap"
  /\ tasks' = reap_tasks(tasks, handles, Len(handles))
  /\ events' = record(events, reap_events(handles, Len(handles)))
  /\ handles' = SelectSeq(handles, LAMBDA tid : procs[tid].status # "exited")
  /\ pc' = "idle"
  /\ last' = NoCall
  /\ UNCHANGED <<policies, queue, procs, cfg, clock, running>>

\* ---------------------------------------------------------- the environment
\* a child process exits with code rc
ProcessExit(task_id, rc) ==
  /\ Alive(task_id)
  /\ procs' = [procs EXCEPT ![task_id] = [@ EXCEPT !.status = "exited", !.rc = rc]]
  /\ last' = NoCall
  /\ UNCHANGED <<tasks, events, policies, queue, handles, cfg, clock, pc, running>>

\* a start-up that pushes every row, whatever its state
RECURSIVE load_every_row(_)
load_every_row(n) ==
  IF n = 0 THEN <<>> ELSE push_queue(load_every_row(n - 1), tasks[n])

\* Scheduler._load_existing_queue(): every row in state queued is pushed
RECURSIVE load_existing_queue(_)
load_existing_queue(n) ==
  IF n = 0 THEN <<>>
  ELSE LET heap == load_existing_queue(n - 1)
       IN  IF tasks[n].state = "queued" THEN push_queue(heap, tasks[n]) ELSE heap

\* the scheduler process is restarted: Scheduler.__init__ over the same store
Restart ==
  /\ handles' = <<>>
  /\ queue' = load_existing_queue(Len(tasks))
  /\ pc' = "idle"
  /\ running' = 0
  /\ last' = NoCall
  /\ UNCHANGED <<tasks, events, policies, procs, cfg, clock>>

\* enqueue, while fewer than `bound` tasks were created
EnqueueUpTo(bound, payload) == Len(tasks) < bound /\ Enqueue(payload)

\* the scheduler's lifecycle operations under the default policy: enqueue,
\* cancel, the tick's steps, process exits and restarts
Next ==
  \/ \E payload \in Payloads : EnqueueUpTo(MaxTasks, payload)
  \/ \E task_id \in TaskIds, delivered \in BOOLEAN : Cancel(task_id, delivered)
  \/ TickStart
  \/ LaunchStale
  \/ \E snap \in Snapshots, now \in NowSet : LaunchDeferred(snap, now)
  \/ \E snap \in Snapshots, now \in NowSet : LaunchStarted(snap, now)
  \/ \E snap \in Snapshots, now \in NowSet : LaunchStartFails(snap, now)
  \/ LaunchDone
  \/ Reap
  \/ \E task_id \in 1 .. Len(tasks), rc \in ExitCodes : ProcessExit(task_id, rc)
  \/ Restart

Spec == Init /\ [][Next]_vars

\* the policy store's operations interleaved with enqueue and the tick
NextPolicy ==
  \/ \E payload \in Payloads : EnqueueUpTo(MaxTasks, payload)
  \/ \E a \in PolicyArgs : PolicySet(a[1], a[2])
  \/ \E snap \in Snapshots, now \in NowSet : Simulate(snap, now)
  \/ TickStart
  \/ \E snap \in Snapshots, now \in NowSet : LaunchDeferred(snap, now)
  \/ \E snap \in Snapshots, now \in NowSet : LaunchStarted(snap, now)
  \/ LaunchDone
  \/ Reap

SpecPolicy == Init /\ [][NextPolicy]_vars

\* the heap under enqueue, deferral and the pops of successive ticks
NextHeap ==
  \/ \E payload \in Payloads : EnqueueUpTo(MaxHeapTasks, payload)
  \/ TickStart
  \/ \E snap \in Snapshots, now \in NowSet : LaunchDeferred(snap, now)
  \/ \E snap \in Snapshots, now \in NowSet : LaunchStarted(snap, now)
  \/ LaunchDone
  \/ Reap
  \/ \E task_id \in 1 .. Len(tasks) : ProcessExit(task_id, 0)

SpecHeap == Init /\ [][NextHeap]_vars

\* one lifetime of the scheduler process: Next without the restart
NextRun ==
  \/ \E payload \in Payloads : EnqueueUpTo(MaxTasks, payload)
  \/ \E task_id \in TaskIds, delivered \in BOOLEAN : Cancel(task_id, delivered)
  \/ TickStart
  \/ LaunchStale
  \/ \E snap \in Snapshots, now \in NowSet : LaunchDeferred(snap, now)
  \/ \E snap \in Snapshots, now \in NowSet : LaunchStarted(snap, now)
  \/ \E snap \in Snapshots, now \in NowSet : LaunchStartFails(snap, now)
  \/ LaunchDone
  \/ Reap
  \/ \E task_id \in 1 .. Len(tasks), rc \in ExitCodes : ProcessExit(task_id, rc)

SpecRun == Init /\ [][NextRun]_vars

\* one step of the background loop's current tick
TickStep ==
  \/ TickStart
  \/ \E snap \in Snapshots, now \in NowSet : LaunchDeferred(snap, now)
  \/ \E snap \in Snapshots, now \in NowSet : LaunchStarted(snap, now)
  \/ \E snap \in Snapshots, now \in NowSet : LaunchStartFails(snap, now)
  \/ LaunchDone
  \/ Reap

\* the background loop while the scheduler is active: callers enqueue,
\* processes exit, starts may fail
NextLoop ==
  \/ \E payload \in Payloads : EnqueueUpTo(MaxTasks, payload)
  \/ TickStart
  \/ \E snap \in Snapshots, now \in NowSet : LaunchDeferred(snap, now)
  \/ \E snap \in Snapshots, now \in NowSet : LaunchStarted(snap, now)
  \/ \E snap \in Snapshots, now \in NowSet : LaunchStartFails(snap, now)
  \/ LaunchDone
  \/ Reap
  \/ \E task_id \in 1 .. Len(tasks), rc \in ExitCodes : ProcessExit(task_id, rc)

\* _loop keeps running while self._active: the tick's steps are taken
\* whenever one stays possible
SpecLoop == Init /\ [][NextLoop]_vars /\ WF_vars(TickStep)

\* ------------------------------ the launch in two steps, callers in between
\* _maybe_start_next up to `self._handles[t.id] = handle`: the row was read
\* as queued in the tick's session, admission passed and the process was
\* started; the row's update is still pending in the session
LaunchSpawned(snap, now) ==
  /\ LoopGuard
  /\ LET item == heappop(queue)[1]
         tid  == item.task_id
     IN  /\ Known(tid) /\ tasks[tid].state = "queued"
         /\ Admission(tid, snap, now).can
         /\ procs' = [procs EXCEPT ![tid] = [status |-> "alive", rc |-> 0, signalled |-> FALSE]]
         /\ handles' = track(handles, tid)
         /\ last' = NoCall
  /\ queue' = heappop(queue)[2]
  /\ policies' = active_rules(policies, cfg.default_policy).store
  /\ pc' = "commit"
  /\ UNCHANGED <<tasks, events, cfg, clock, running>>

\* the task whose start is pending: tracked, its row not yet written
InFlight == CHOOSE t \in 1 .. Len(tasks) : Tracked(t) /\ tasks[t].started_at = Null

\* the end of _maybe_start_next: session_scope commits the attributes set on
\* the row read earlier (state, started_at, pid, log_path) and the started
\* event, whatever another session has committed to the row meanwhile
LaunchCommit ==
  /\ pc = "commit"
  /\ LET tid == InFlight
     IN  /\ tasks' = [tasks EXCEPT ![tid] =
                        [@ EXCEPT !.state = "running", !.started_at = Some(utcnow),
                                  !.pid = Some(tid), !.log_path = Some(tid)]]
         /\ events' = record(events, <<ScheduleEvent("started", tid, tasks[tid].command)>>)
  /\ running' = running + 1
  /\ pc' = "launch"
  /\ last' = NoCall
  /\ UNCHANGED <<policies, queue, handles, procs, cfg, clock>>

\* the tick with its launch in two steps, under callers that enqueue and
\* cancel from other threads
NextRace ==
  \/ \E payload \in Payloads : EnqueueUpTo(MaxTasks, payload)
  \/ \E task_id \in TaskIds, delivered \in BOOLEAN : Cancel(task_id, delivered)
  \/ TickStart
  \/ LaunchStale
  \/ \E snap \in Snapshots, now \in NowSet : LaunchDeferred(snap, now)
  \/ \E snap \in Snapshots, now \in NowSet : LaunchSpawned(snap, now)
  \/ LaunchCommit
  \/ LaunchDone
  \/ Reap
  \/ \E task_id \in 1 .. Len(tasks), rc \in ExitCodes : ProcessExit(task_id, rc)

SpecRace == Init /\ [][NextRace]_vars

\* ------------------------------------ aging under a constant environment
\* a machine at 82% CPU at noon: under balanced_defaults a task with
\* max_cpu_pct 80 is denied and one with max_cpu_pct 100 is admitted, at
\* every tick
AgingSnapshot == Snapshot(82)
AgingNow == 720

\* a deferral of the heap's first task, while it was deferred fewer than
\* MaxAging times
LaunchAged ==
  /\ LoopGuard
  /\ CountIn(events, {"deferred"}, heappop(queue)[1].task_id) < MaxAging
  /\ Defer(AgingSnapshot, AgingNow)

\* the steps of _tick in this environment
AgingTick ==
  \/ TickStart
  \/ LaunchAged
  \/ LaunchStarted(AgingSnapshot, AgingNow)
  \/ LaunchDone
  \/ Reap

\* a launched process ends
AgingExit == \E task_id \in 1 .. Len(tasks), rc \in ExitCodes : ProcessExit(task_id, rc)

NextAging ==
  \/ \E payload \in Payloads : EnqueueUpTo(MaxTasks, payload)
  \/ TickStart
  \/ LaunchAged
  \/ LaunchStarted(AgingSnapshot, AgingNow)
  \/ LaunchDone
  \/ Reap
  \/ AgingExit

\* the loop keeps ticking and every process ends, so slots become free
SpecAging == Init /\ [][NextAging]_vars /\ WF_vars(AgingTick) /\ WF_vars(AgingExit)

\* ------------------------------------------------- the evaluator on its own
\* snapshots handed to evaluate: CPU readings around the ceilings, 0.5 GiB
\* and 7 GiB of memory in use, no GPU / a GPU (idle, busy, nearly full, no
\* memory figures), and mains / battery at 20 % / battery at 0 % / no
\* battery figures
EvalSnapshots ==
  [ cpu_total_pct : {10, 80, 85, 86, 99},
    mem_used_kib  : {524288, 7340032},
    gpu   : { [available |-> FALSE, util_pct |-> 0,  mem_total_kib |-> 0,       mem_used_kib |-> 0],
              [available |-> TRUE,  util_pct |-> 50, mem_total_kib |-> 8388608, mem_used_kib |-> 1048576],
              [available |-> TRUE,  util_pct |-> 90, mem_total_kib |-> 8388608, mem_used_kib |-> 1048576],
              [available |-> TRUE,  util_pct |-> 50, mem_total_kib |-> 8388608, mem_used_kib |-> 7864320],
              [available |-> TRUE,  util_pct |-> 50, mem_total_kib |-> 0,       mem_used_kib |-> 0] },
    power : { [plugged |-> TRUE,  battery_pct |-> Some(100)],
              [plugged |-> FALSE, battery_pct |-> Some(20)],
              [plugged |-> FALSE, battery_pct |-> Some(0)],
              [plugged |-> FALSE, battery_pct |-> Null] } ]

\* task requirements handed to evaluate (the dict of _task_as_dict)
EvalTasks ==
  [ requires_gpu : BOOLEAN, min_vram_mb : {0, 1024}, max_cpu_pct : {80, 100},
    max_mem_mb : {0}, priority : {5} ]

\* rule sets handed to evaluate: the presets and a caller's rule set with a
\* daytime window
EvalRules ==
  { PRESETS["performance"], PRESETS["balanced_defaults"], PRESETS["sip-battery"],
    [ battery_min_pct |-> 30, cpu_max_pct |-> 85, mem_reserve_mb |-> 2048,
      gpu_max_util_pct |-> 80,
      quiet_hours |-> [start |-> <<9, 0>>, end |-> <<17, 0>>, allow_if_plugged |-> FALSE] ] }

\* datetime.now().time() at a call: 03:00, 12:00, 20:00, 23:30
EvalNowSet == {180, 720, 1200, 1410}

\* a caller holds a snapshot, a task's requirements and a rule set
InitEval ==
  /\ tasks = <<>>
  /\ events = EmptyBag
  /\ policies = <<>>
  /\ queue = <<>>
  /\ handles = <<>>
  /\ procs = <<>>
  /\ cfg \in Configs
  /\ clock = 1
  /\ pc = "idle"
  /\ running = 0
  /\ \E snapshot \in EvalSnapshots, task \in EvalTasks, rules \in EvalRules :
       last = [op |-> "args", arg |-> <<snapshot, task, rules>>, ret |-> 0, at |-> 0]

\* evaluate(snapshot, task, rules) called at wall-clock time `now`
EvaluateCall(now) ==
  /\ last' = [op |-> "evaluate", arg |-> last.arg,
              ret |-> evaluate(last.arg[1], last.arg[2], last.arg[3], now), at |-> now]
  /\ UNCHANGED <<tasks, events, policies, queue, handles, procs, cfg, clock, pc, running>>

\* in_quiet_hours(rules["quiet_hours"]) called at wall-clock time `now`
InQuietHoursCall(now) ==
  /\ last' = [op |-> "in_quiet_hours", arg |-> last.arg,
              ret |-> in_quiet_hours(last.arg[3].quiet_hours, now), at |-> now]
  /\ UNCHANGED <<tasks, events, policies, queue, handles, procs, cfg, clock, pc, running>>

NextEval ==
  \/ \E now \in EvalNowSet : EvaluateCall(now)
  \/ \E now \in EvalNowSet : InQuietHoursCall(now)

SpecEval == InitEval /\ [][NextEval]_vars

\* =================================================================== claims

Terminal == {"done", "failed", "canceled"}

\* the transitions of the task state machine
AllowedTransitions ==
  { <<"queued", "running">>, <<"running", "done">>, <<"running", "failed">>,
    <<"queued", "canceled">>, <<"running", "canceled">> }

\* C1: every change of a task's durable state is one of queued->running,
\* running->done, running->failed, queued->canceled, running->canceled; in
\* particular no step changes a state that is done, failed or canceled.
C1_TransitionsAllowed ==
  [][\A t \in 1 .. Len(tasks) :
       tasks'[t].state # tasks[t].state
         => <<tasks[t].state, tasks'[t].state>> \in AllowedTransitions]_vars

\* C2: the number of tracked handles whose process has not exited never
\* exceeds max_parallel, processes of canceled tasks included.
C2_LiveHandlesBounded == live_count <= cfg.max_parallel

\* C2 witness: the cap is reached while one of the live tracked processes
\* belongs to a task canceled while running and another task waits queued.
C2_Witness ==
  /\ live_count = cfg.max_parallel
  /\ \E i \in 1 .. Len(handles) :
       Alive(handles[i]) /\ tasks[handles[i]].state = "canceled"
  /\ \E k \in 1 .. Len(queue) : tasks[queue[k].task_id].state = "queued"

\* C3: cancel on a task in state queued returns true, leaves the task
\* canceled and adds exactly one canceled event (and no other event).
C3_CancelQueued ==
  [][\A t \in 1 .. Len(tasks) :
       (last'.op = "cancel" /\ last'.arg = t /\ tasks[t].state = "queued")
         => /\ last'.ret = TRUE
            /\ tasks'[t].state = "canceled"
            /\ CountIn(events', {"canceled"}, t) = CountIn(events, {"canceled"}, t) + 1
            /\ BagCardinality(events') = BagCardinality(events) + 1]_vars

\* C3 witness: a cancel has just returned true for a task that never started.
C3_Witness ==
  /\ last.op = "cancel" /\ last.ret = TRUE
  /\ tasks[last.arg].state = "canceled"
  /\ tasks[last.arg].started_at = Null
  /\ CountIn(events, {"canceled"}, last.arg) = 1

\* C4: cancel on an unknown id or on a task that is done, failed or canceled
\* returns false and changes no task, event, heap entry, handle, process or
\* policy.
C4_CancelNoop ==
  [][\A t \in TaskIds :
       (last'.op = "cancel" /\ last'.arg = t
          /\ (~Known(t) \/ tasks[t].state \in Terminal))
         => /\ last'.ret = FALSE
            /\ UNCHANGED <<tasks, events, queue, handles, procs, policies>>]_vars

\* C4 witness: a cancel has just returned false for a task that is done while
\* another task's process is tracked.
C4_Witness ==
  /\ last.op = "cancel" /\ last.ret = FALSE
  /\ Known(last.arg) /\ tasks[last.arg].state = "done"
  /\ handles # <<>>

\* C5: cancel on a task in state running leaves it canceled and adds one
\* canceled event whatever happens to the process; it returns true exactly
\* when this call sent the terminate signal, which requires a tracked handle
\* whose process had not exited.
C5_CancelRunning ==
  [][\A t \in 1 .. Len(tasks) :
       (last'.op = "cancel" /\ last'.arg = t /\ tasks[t].state = "running")
         => /\ tasks'[t].state = "canceled"
            /\ CountIn(events', {"canceled"}, t) = CountIn(events, {"canceled"}, t) + 1
            /\ last'.ret = (procs'[t].signalled /\ ~procs[t].signalled)
            /\ last'.ret => (Tracked(t) /\ Alive(t))]_vars

\* C5 witness: a cancel has just returned false for a running task whose
\* process is alive but not tracked (the scheduler was restarted), and the
\* task is canceled with its event.
C5_Witness ==
  /\ last.op = "cancel" /\ last.ret = FALSE
  /\ Known(last.arg) /\ tasks[last.arg].state = "canceled"
  /\ tasks[last.arg].started_at # Null
  /\ Alive(last.arg) /\ ~Tracked(last.arg)
  /\ CountIn(events, {"canceled"}, last.arg) = 1

\* C6: enqueue with an empty command string is rejected: no task is
\* persisted, no event is recorded and nothing is pushed onto the heap.
C6_EmptyCommandRejected ==
  [][(last'.op = "enqueue" /\ last'.arg = "")
       => UNCHANGED <<tasks, events, queue>>]_vars

\* the entries returned by popping the heap until it is empty
RECURSIVE PopAll(_)
PopAll(heap) ==
  IF heap = <<>> THEN <<>>
  ELSE <<heappop(heap)[1]>> \o PopAll(heappop(heap)[2])

\* entry a may be popped before entry b: smaller priority number, or the
\* same priority and enqueued no later
MayPrecede(a, b) ==
  \/ a.priority < b.priority
  \/ /\ a.priority = b.priority
     /\ tasks[a.task_id].created_at <= tasks[b.task_id].created_at

\* C7: successive pops of the heap yield its entries sorted by priority
\* ascending and, among equal priorities, by enqueue time ascending.
C7_PopOrder ==
  LET order == PopAll(queue)
  IN  /\ Len(order) = Len(queue)
      /\ \A i \in 1 .. Len(order), j \in 1 .. Len(order) :
           i < j => MayPrecede(order[i], order[j])

\* C7 witness: priorities 5, 1, 5 were enqueued in that order and pop as the
\* priority-1 task, the first priority-5 task, the second priority-5 task.
C7_Witness ==
  /\ Len(queue) = 3
  /\ [i \in 1 .. 3 |-> PopAll(queue)[i].task_id] = <<2, 1, 3>>
  /\ [i \in 1 .. 3 |-> PopAll(queue)[i].priority] = <<1, 5, 5>>

\* C8: once a policy was activated exactly one policy is active; right after
\* policy_set(name) it is the named one, and any other step either keeps the
\* active policy or seeds the default preset when none was active.
C8_OneActive ==
  /\ [](policies # <<>> => Cardinality(ActivePolicies(policies)) = 1)
  /\ [][/\ last'.op = "policy_set" => ActivePolicies(policies') = {last'.arg}
        /\ last'.op # "policy_set" =>
             \/ ActivePolicies(policies') = ActivePolicies(policies)
             \/ /\ ActivePolicies(policies) = {}
                /\ ActivePolicies(policies') = {cfg.default_policy}]_vars

\* C8 witness: policy_set("performance") has just returned while the seeded
\* default policy, active before, is stored inactive.
C8_Witness ==
  /\ last.op = "policy_set" /\ last.ret = "performance"
  /\ DOMAIN policies = {"balanced_defaults", "performance"}
  /\ ~policies["balanced_defaults"].active
  /\ policies["performance"].active

\* C9 as stated: simulate leaves tasks, events, the policy store, the heap
\* and the handle table unchanged in every state, also with no active policy.
C9_SimulateDryRun ==
  [][last'.op = "simulate"
       => UNCHANGED <<tasks, events, policies, queue, handles>>]_vars

\* C9 amended: simulate leaves tasks, events, the heap, the handle table and
\* the processes unchanged in every state; it leaves the policy store
\* unchanged when a policy is active, and when none is active it stores the
\* default preset as the single active policy.
C9_SimulateAmended ==
  [][last'.op = "simulate"
       => /\ UNCHANGED <<tasks, events, queue, handles, procs>>
          /\ ActivePolicies(policies) # {} => policies' = policies
          /\ ActivePolicies(policies) = {} =>
               /\ ActivePolicies(policies') = {cfg.default_policy}
               /\ json_loads(policies'[cfg.default_policy].json_rules)
                    = PRESETS[cfg.default_policy]
               /\ \A n \in DOMAIN policies : n \in DOMAIN policies']_vars

\* C9 witness: simulate has just returned a plan for two queued tasks while a
\* policy set by a caller is the active one.
C9_Witness ==
  /\ last.op = "simulate" /\ Len(last.ret) = 2
  /\ ActivePolicies(policies) = {"performance"}
  /\ queue # <<>>

\* a queued task with an entry in heap that an idle machine's snapshot admits
AdmissibleQueued(heap) ==
  \E k \in 1 .. Len(heap) :
    /\ Known(heap[k].task_id)
    /\ tasks[heap[k].task_id].state = "queued"
    /\ \A now \in NowSet : Admission(heap[k].task_id, Snapshot(10), now).can

\* C10: the launch phase does not end on discarding a stale entry (one whose
\* task is missing or no longer queued) while capacity is left and the heap
\* still holds an admissible queued task.
C10_StaleEntrySkipped ==
  [][(/\ pc = "launch" /\ queue # <<>> /\ has_capacity(running)
      /\ ~(Known(heappop(queue)[1].task_id)
           /\ tasks[heappop(queue)[1].task_id].state = "queued")
      /\ queue' = heappop(queue)[2]
      /\ tasks' = tasks
      /\ pc' # "idle"
      /\ AdmissibleQueued(queue'))
       => pc' = "launch"]_vars

\* the number of heap entries that name task_id
EntriesOf(heap, task_id) == Cardinality({k \in 1 .. Len(heap) : heap[k].task_id = task_id})

\* C11: when a launch attempt pops a queued task and does not start it
\* (admission was denied), the task stays queued with its priority number
\* raised by exactly 1 and nothing else changed, the heap holds it again in
\* one entry that carries the raised priority, exactly one deferred event
\* with the (non-empty) denial reasons is recorded, and no process or handle
\* is created.
C11_DeferredEffects ==
  [][\A tid \in 1 .. Len(tasks) :
       (/\ LoopGuard
        /\ heappop(queue)[1].task_id = tid
        /\ tasks[tid].state = "queued"
        /\ last' = NoCall
        /\ tasks'[tid].state # "running")
         => /\ tasks' = [tasks EXCEPT ![tid].priority = @ + 1]
            /\ Len(queue') = Len(queue)
            /\ EntriesOf(queue', tid) = 1
            /\ \A k \in 1 .. Len(queue') :
                 queue'[k].task_id = tid => queue'[k].priority = tasks[tid].priority + 1
            /\ \E snap \in Snapshots, now \in NowSet :
                 /\ ~Admission(tid, snap, now).can
                 /\ Admission(tid, snap, now).reasons # <<>>
                 /\ events' = events (+) SetToBag({ScheduleEvent("deferred", tid,
                                                    Admission(tid, snap, now).reasons)})
            /\ UNCHANGED <<handles, procs>>]_vars

\* C11 witness: a task with max_cpu_pct = 80 enqueued at priority 1 was just
\* denied on CPU: it is queued at priority 2 with one heap entry, one
\* deferred event naming the CPU and no process.
C11_Witness ==
  /\ pc = "reap" /\ last = NoCall
  /\ \E tid \in 1 .. Len(tasks) :
       /\ tasks[tid].state = "queued"
       /\ tasks[tid].max_cpu_pct = 80 /\ tasks[tid].priority = 2
       /\ EntriesOf(queue, tid) = 1
       /\ CopiesIn(ScheduleEvent("deferred", tid, <<"CPU">>), events) = 1
       /\ CountIn(events, {"deferred"}, tid) = 1
       /\ procs[tid].status = "none" /\ ~Tracked(tid)

\* C12: a step that records a deferral ends the launch phase of its tick;
\* outside the launch phase no heap entry is popped, no admission is decided
\* and no process is started; and every launch attempt acts on the entry the
\* heap pops first, which no other entry precedes.
C12_DeferralEndsLaunchPhase ==
  [][/\ NDeferred' > NDeferred => (pc = "launch" /\ pc' = "reap")
     /\ pc # "launch" =>
          /\ NDeferred' = NDeferred
          /\ \A t \in 1 .. Len(tasks) :
               /\ tasks'[t].state = "running" => tasks[t].state = "running"
               /\ procs'[t].status = "alive" => procs[t].status = "alive"
               /\ CountIn(events', {"started"}, t) = CountIn(events, {"started"}, t)
          /\ \A k \in 1 .. Len(queue) : \E j \in 1 .. Len(queue') : queue'[j] = queue[k]
     /\ \A t \in 1 .. Len(tasks) :
          (\/ tasks[t].state = "queued" /\ tasks'[t].state = "running"
           \/ CountIn(events', {"deferred"}, t) > CountIn(events, {"deferred"}, t))
            => /\ LoopGuard
               /\ heappop(queue)[1].task_id = t
               /\ \A k \in 1 .. Len(queue) : MayPrecede(heappop(queue)[1], queue[k])]_vars

\* C12 witness: the launch phase has just ended on a deferral while a slot
\* is free and the heap holds another queued, never deferred task that the
\* same busy snapshot admits under the active rules.
C12_Witness ==
  /\ pc = "reap" /\ last = NoCall
  /\ has_capacity(running)
  /\ \E d \in 1 .. Len(tasks), k \in 1 .. Len(queue) :
       LET t == queue[k].task_id
       IN  /\ t # d
           /\ tasks[d].state = "queued" /\ CountIn(events, {"deferred"}, d) = 1
           /\ ~Admission(d, Snapshot(90), 720).can
           /\ tasks[t].state = "queued" /\ CountIn(events, {"deferred"}, t) = 0
           /\ Admission(t, Snapshot(90), 720).can

\* C13: while no tick is in progress every task whose durable state is
\* queued has an entry in the heap.
C13_QueuedHasHeapEntry ==
  pc = "idle" =>
    \A t \in 1 .. Len(tasks) : tasks[t].state = "queued" => EntriesOf(queue, t) >= 1

\* C14: a launch attempt that pops a queued task and neither pushes it back
\* nor starts it (starting the process failed) leaves the task failed, with
\* one more failed event.
C14_StartFailureRecorded ==
  [][\A tid \in 1 .. Len(tasks) :
       (/\ LoopGuard
        /\ heappop(queue)[1].task_id = tid
        /\ tasks[tid].state = "queued"
        /\ last' = NoCall
        /\ EntriesOf(queue', tid) = 0
        /\ procs'[tid].status = "none")
         => /\ tasks'[tid].state = "failed"
            /\ CountIn(events', {"failed"}, tid) = CountIn(events, {"failed"}, tid) + 1]_vars

\* the tracked handles whose process has exited
ExitedTracked == {t \in 1 .. Len(procs) : Tracked(t) /\ procs[t].status = "exited"}

\* C15: the reap phase of a tick handles every tracked handle whose process
\* has exited: the task becomes done for exit code 0 and failed otherwise,
\* the exit code and the end time are stored, one finished or failed event is
\* recorded and the handle is dropped; handles of live processes stay
\* tracked and every other task is left as it was.
C15_ReapHandlesExited ==
  [][(pc = "reap" /\ pc' = "idle")
       => /\ \A t \in 1 .. Len(tasks) :
               IF t \in ExitedTracked
                 THEN LET rc == procs[t].rc
                      IN  /\ tasks'[t] = [tasks[t] EXCEPT
                                            !.state = IF rc = 0 THEN "done" ELSE "failed",
                                            !.return_code = Some(rc),
                                            !.ended_at = Some(utcnow)]
                          /\ CountIn(events', {IF rc = 0 THEN "finished" ELSE "failed"}, t)
                               = CountIn(events, {IF rc = 0 THEN "finished" ELSE "failed"}, t) + 1
                          /\ CountIn(events', {"finished", "failed"}, t)
                               = CountIn(events, {"finished", "failed"}, t) + 1
                          /\ \A i \in 1 .. Len(handles') : handles'[i] # t
                 ELSE /\ tasks'[t] = tasks[t]
                      /\ Tracked(t) => \E i \in 1 .. Len(handles') : handles'[i] = t
          /\ BagCardinality(events') = BagCardinality(events) + Cardinality(ExitedTracked)
          /\ Len(handles') = Len(handles) - Cardinality(ExitedTracked)
          /\ procs' = procs]_vars

\* C15 witness: a reap phase has just ended in which one task was set to
\* failed with exit code 1 and its failed event while the handle of another,
\* still running task stayed tracked.
C15_Witness ==
  /\ pc = "idle" /\ last = NoCall
  /\ \E t \in 1 .. Len(tasks), u \in 1 .. Len(tasks) :
       /\ tasks[t].state = "failed" /\ tasks[t].return_code = Some(1)
       /\ tasks[t].ended_at = Some(utcnow)
       /\ CountIn(events, {"failed"}, t) = 1 /\ ~Tracked(t)
       /\ tasks[u].state = "running" /\ Tracked(u) /\ Alive(u)

\* C16: two successive evaluate calls with the same snapshot, task
\* requirements and rule set return the same (allowed, reasons) pair,
\* whatever the times of day of the calls.
C16_EvaluateDeterministic ==
  [][(last.op = "evaluate" /\ last'.op = "evaluate" /\ last'.arg = last.arg)
       => last'.ret = last.ret]_vars

\* the elements of a sequence
Range(seq) == {seq[i] : i \in 1 .. Len(seq)}

\* the checks of evaluate and the reasons each one may append
Checks == {"cpu", "memory", "battery", "quiet", "gpu"}
ReasonsOf(check) ==
  CASE check = "cpu"     -> {"CPU"}
    [] check = "memory"  -> {"Free memory"}
    [] check = "battery" -> {"Battery"}
    [] check = "quiet"   -> {"Quiet hours"}
    [] check = "gpu"     -> {"GPU required", "GPU util", "GPU free VRAM"}

\* inputs under which no check can be violated: the idle, plugged-in machine
\* of the test suite, a task without requirements and rules without limits
BenignTask ==
  [requires_gpu |-> FALSE, min_vram_mb |-> 0, max_cpu_pct |-> 100, max_mem_mb |-> 0, priority |-> 5]
\* (the window 00:00-00:01 holds none of the times explored)
BenignRules ==
  [ battery_min_pct |-> 0, cpu_max_pct |-> 100, mem_reserve_mb |-> 0, gpu_max_util_pct |-> 100,
    quiet_hours |-> [start |-> <<0, 0>>, end |-> <<0, 1>>, allow_if_plugged |-> TRUE] ]

\* the inputs (snapshot, task, rules) with everything but what one check
\* reads replaced by the benign values
Isolated(check, snapshot, task, rules) ==
  CASE check = "cpu" ->
         << [Snapshot(10) EXCEPT !.cpu_total_pct = snapshot.cpu_total_pct],
            [BenignTask EXCEPT !.max_cpu_pct = task.max_cpu_pct],
            [BenignRules EXCEPT !.cpu_max_pct = rules.cpu_max_pct] >>
    [] check = "memory" ->
         << [Snapshot(10) EXCEPT !.mem_used_kib = snapshot.mem_used_kib],
            [BenignTask EXCEPT !.max_mem_mb = task.max_mem_mb],
            [BenignRules EXCEPT !.mem_reserve_mb = rules.mem_reserve_mb] >>
    [] check = "battery" ->
         << [Snapshot(10) EXCEPT !.power = snapshot.power],
            BenignTask,
            [BenignRules EXCEPT !.battery_min_pct = rules.battery_min_pct] >>
    [] check = "quiet" ->
         << [Snapshot(10) EXCEPT !.power = snapshot.power],
            BenignTask,
            [BenignRules EXCEPT !.quiet_hours = rules.quiet_hours] >>
    [] check = "gpu" ->
         << [Snapshot(10) EXCEPT !.gpu = snapshot.gpu],
            [BenignTask EXCEPT !.requires_gpu = task.requires_gpu,
                               !.min_vram_mb = task.min_vram_mb],
            [BenignRules EXCEPT !.gpu_max_util_pct = rules.gpu_max_util_pct] >>

\* C17: evaluate allows exactly when it returns no reasons; the reasons of
\* each check (CPU, memory, battery, quiet hours, GPU) in the result are the
\* ones that check yields when it is the only one that can be violated, so no
\* violated check hides another; and with nothing violated (the idle,
\* plugged-in machine under rules that allow running while plugged in) the
\* task is allowed with no reasons.
C17_EveryViolationReported ==
  last.op = "evaluate" =>
    LET snapshot == last.arg[1]
        task     == last.arg[2]
        rules    == last.arg[3]
        res      == last.ret
    IN  /\ res.can = (res.reasons = <<>>)
        /\ \A check \in Checks :
             LET iso == Isolated(check, snapshot, task, rules)
             IN  SelectSeq(res.reasons, LAMBDA r : r \in ReasonsOf(check))
                   = evaluate(iso[1], iso[2], iso[3], last.at).reasons
        /\ Range(res.reasons) \subseteq UNION {ReasonsOf(check) : check \in Checks}
        /\ rules.quiet_hours.allow_if_plugged =>
             evaluate(Snapshot(10), BenignTask, rules, last.at) = [can |-> TRUE, reasons |-> <<>>]

\* C17 witness: one call in which all five checks are violated returns the
\* five reasons together.
C17_Witness ==
  /\ last.op = "evaluate"
  /\ ~last.ret.can
  /\ last.ret.reasons = <<"CPU", "Free memory", "Battery", "Quiet hours", "GPU required">>

\* C18: evaluate returns a CPU reason exactly when the snapshot's CPU
\* percentage is strictly greater than the rule's ceiling or strictly greater
\* than the task's max_cpu_pct, that is, than the smaller of the two; a
\* reading equal to the smaller one is not a violation.
C18_CpuCheck ==
  last.op = "evaluate" =>
    LET snapshot == last.arg[1]
        task     == last.arg[2]
        rules    == last.arg[3]
    IN  ("CPU" \in Range(last.ret.reasons))
          = (\/ snapshot.cpu_total_pct > rules.cpu_max_pct
             \/ snapshot.cpu_total_pct > task.max_cpu_pct)

\* C18 witness: CPU at 99 with task limit 80 under a rule ceiling of 85 is
\* denied with a CPU reason.
C18_Witness ==
  /\ last.op = "evaluate"
  /\ last.arg[1].cpu_total_pct = 99
  /\ last.arg[2].max_cpu_pct = 80
  /\ last.arg[3].cpu_max_pct = 85
  /\ ~last.ret.can /\ "CPU" \in Range(last.ret.reasons)

\* C19: a task without requires_gpu gets no GPU reason; a task with
\* requires_gpu gets one when no GPU is available, and with a GPU available
\* gets one exactly when the utilisation exceeds the rule's ceiling or its
\* nonzero min_vram_mb exceeds the free VRAM (total minus used).
C19_GpuCheck ==
  last.op = "evaluate" =>
    LET snapshot == last.arg[1]
        task     == last.arg[2]
        rules    == last.arg[3]
        gpu      == snapshot.gpu
        given    == Range(last.ret.reasons) \cap ReasonsOf("gpu")
    IN  /\ ~task.requires_gpu => given = {}
        /\ (task.requires_gpu /\ ~gpu.available) => given # {}
        /\ (task.requires_gpu /\ gpu.available) =>
             (given # {}) =
               (\/ gpu.util_pct > rules.gpu_max_util_pct
                \/ /\ task.min_vram_mb # 0
                   /\ task.min_vram_mb * KiBPerMB > gpu.mem_total_kib - gpu.mem_used_kib)

\* C19 witness: a task that requires a GPU and 1024 MB of VRAM is allowed on
\* a machine whose GPU is available, within the utilisation ceiling and has
\* 7168 MB free.
C19_Witness ==
  /\ last.op = "evaluate"
  /\ last.arg[2].requires_gpu /\ last.arg[2].min_vram_mb = 1024
  /\ last.arg[1].gpu.available
  /\ last.arg[1].gpu.mem_total_kib - last.arg[1].gpu.mem_used_kib = 7168 * KiBPerMB
  /\ last.ret.can /\ last.ret.reasons = <<>>

\* C20: a window whose start is later than its end is active exactly when
\* now >= start or now < end; 22:00-07:00 is active at 23:30 and 03:00 and
\* not at 12:00; 09:00-17:00 is active at 12:00 and not at 20:00.
C20_QuietHoursWrap ==
  last.op = "in_quiet_hours" =>
    LET quiet == last.arg[3].quiet_hours
        start == quiet.start[1] * 60 + quiet.start[2]
        end   == quiet.end[1] * 60 + quiet.end[2]
        now   == last.at
    IN  /\ start > end => (last.ret = (now >= start \/ now < end))
        /\ (quiet.start = <<22, 0>> /\ quiet.end = <<7, 0>>) =>
             last.ret = (now \in {1410, 180})
        /\ (quiet.start = <<9, 0>> /\ quiet.end = <<17, 0>>) =>
             last.ret = (now = 720)

\* C20 witness: the window 22:00-07:00 was found active at 03:00.
C20_Witness ==
  /\ last.op = "in_quiet_hours"
  /\ last.arg[3].quiet_hours.start = <<22, 0>> /\ last.arg[3].quiet_hours.end = <<7, 0>>
  /\ last.at = 180 /\ last.ret = TRUE

\* C21: when a tick's admission check or simulate needs the active rules and
\* no policy is active, the default preset is stored with the preset's
\* rules as the single active policy (every other policy is kept, inactive),
\* and the decision of that call is the one evaluate gives under the
\* preset's rules.
C21_DefaultSeeded ==
  [][(/\ ActivePolicies(policies) = {}
      /\ \/ last'.op = "simulate"
         \/ LoopGuard /\ last' = NoCall)
       => LET default == cfg.default_policy
          IN  /\ ActivePolicies(policies') = {default}
              /\ json_loads(policies'[default].json_rules) = PRESETS[default]
              /\ \A n \in DOMAIN policies : n \in DOMAIN policies'
              /\ last'.op = "simulate" =>
                   \E snap \in Snapshots, now \in NowSet :
                     \A i \in 1 .. Len(last'.ret) :
                       last'.ret[i].can
                         = evaluate(snap, task_as_dict(tasks[last'.ret[i].task_id]),
                                    PRESETS[default], now).can
              /\ last'.op # "simulate" =>
                   LET tid == heappop(queue)[1].task_id
                   IN  \E snap \in Snapshots, now \in NowSet :
                         LET res == evaluate(snap, task_as_dict(tasks[tid]), PRESETS[default], now)
                         IN  IF tasks'[tid].state = "running"
                               THEN res.can
                               ELSE /\ ~res.can
                                    /\ CopiesIn(ScheduleEvent("deferred", tid, res.reasons), events')
                                         = CopiesIn(ScheduleEvent("deferred", tid, res.reasons), events) + 1]_vars

\* C21 witness: simulate has returned a plan for a queued task and the
\* store holds the default preset as its only policy, active, while no tick
\* has decided an admission yet.
C21_Witness ==
  /\ last.op = "simulate" /\ Len(last.ret) >= 1
  /\ DOMAIN policies = {cfg.default_policy}
  /\ policies[cfg.default_policy].active
  /\ json_loads(policies[cfg.default_policy].json_rules) = PRESETS[cfg.default_policy]
  /\ \A t \in 1 .. Len(tasks) : CountIn(events, {"started", "deferred"}, t) = 0

\* C22: a window whose start is not later than its end, a window with equal
\* start and end included, is active exactly when start <= now < end.
C22_QuietHoursNoWrap ==
  last.op = "in_quiet_hours" =>
    LET quiet == last.arg[3].quiet_hours
        start == quiet.start[1] * 60 + quiet.start[2]
        end   == quiet.end[1] * 60 + quiet.end[2]
        now   == last.at
    IN  start <= end => (last.ret = (start <= now /\ now < end))

\* C23: evaluate returns a battery reason exactly when the rule's minimum is
\* nonzero, the machine is not plugged in, a battery percentage is reported
\* and the percentage is below the minimum.
C23_BatteryCheck ==
  last.op = "evaluate" =>
    LET power == last.arg[1].power
        rules == last.arg[3]
    IN  ("Battery" \in Range(last.ret.reasons))
          = (/\ rules.battery_min_pct # 0
             /\ ~power.plugged
             /\ power.battery_pct # Null
             /\ power.battery_pct[1] < rules.battery_min_pct)

\* C24: enqueue stores the caller's priority unchanged, priority 0 included:
\* the row created by an enqueue call carries the priority of the payload
\* it was called with, and so does its heap entry.
C24_PriorityStored ==
  [][last'.op = "enqueue"
       => \E payload \in Payloads :
            /\ payload.command = last'.arg
            /\ tasks'[last'.ret].priority = payload.priority
            /\ \E k \in 1 .. Len(queue') :
                 /\ queue'[k].task_id = last'.ret
                 /\ queue'[k].priority = payload.priority]_vars

\* the number of tasks whose durable state is running: what list(state =
\* "running") returns to a caller
NRunning == Len(list_state("running"))

\* C25: in every state a caller can observe, the points between the steps of
\* a tick included, at most max_parallel tasks are in durable state running.
C25_DurableRunningBounded == NRunning <= cfg.max_parallel

\* C26: the heap a restart builds over the current store holds exactly one
\* entry for every task in durable state queued and none for any other
\* task, each entry carrying the task's durable priority and enqueue time.
C26_RestartRebuildsHeap ==
  LET heap == load_existing_queue(Len(tasks))
  IN  /\ \A t \in 1 .. Len(tasks) :
           EntriesOf(heap, t) = IF tasks[t].state = "queued" THEN 1 ELSE 0
      /\ \A k \in 1 .. Len(heap) :
           /\ heap[k].task_id \in 1 .. Len(tasks)
           /\ heap[k].priority = tasks[heap[k].task_id].priority
           /\ heap[k].ts = timestamp(tasks[heap[k].task_id].created_at)

\* C26 witness: the scheduler was restarted while one task's process was
\* running (it is alive and no longer tracked), and the rebuilt heap holds
\* the other task, queued and deferred once, at its raised priority.
C26_Witness ==
  /\ pc = "idle" /\ handles = <<>>
  /\ queue = load_existing_queue(Len(tasks))
  /\ \E r \in 1 .. Len(tasks), q \in 1 .. Len(tasks) :
       /\ tasks[r].state = "running" /\ Alive(r)
       /\ tasks[q].state = "queued" /\ CountIn(events, {"deferred"}, q) = 1
       /\ tasks[q].priority = 2
       /\ queue = <<[priority |-> 2, ts |-> timestamp(tasks[q].created_at), task_id |-> q]>>

\* a tick was abandoned on an error: the start of a popped task failed, which
\* leaves the task queued without a heap entry
TickFailed ==
  \E t \in 1 .. Len(tasks) : tasks[t].state = "queued" /\ EntriesOf(queue, t) = 0

\* C27: after a tick that was abandoned on an error the loop goes on: a
\* further tick is always started.
C27_LoopSurvivesErrors == TickFailed ~> (pc = "launch")

\* C27 witness: a tick is in its launch phase after an earlier tick was
\* abandoned on a failed start.
C27_Witness == TickFailed /\ pc = "launch"

\* cancel found task t in state queued and returned true
CanceledWhileQueued(t) ==
  CopiesIn(ScheduleEvent("canceled", t, "Canceled while queued"), events) > 0

\* C28: a task for which cancel returned true on finding it queued stays
\* canceled and is never recorded as started.
C28_CanceledNeverLaunched ==
  \A t \in 1 .. Len(tasks) :
    CanceledWhileQueued(t) =>
      /\ tasks[t].state = "canceled"
      /\ CountIn(events, {"started"}, t) = 0

AgingAdmitted(t) ==
  /\ t <= Len(tasks)
  /\ tasks[t].state = "queued"
  /\ Admission(t, AgingSnapshot, AgingNow).can

====
